---- MODULE Spec2Model ----
(***************************************************************************)
(* Model of CSVDataTable (HW1 programming template): an in-memory row set  *)
(* loaded from, and saved to, a CSV file.                                  *)
(*                                                                         *)
(* A record (Python dict) is [ks, vs]: ks lists its columns in insertion    *)
(* order, vs maps each column to its value. Python's dict equality ignores *)
(* the insertion order: two dicts are equal when their vs are equal.       *)
(* The file is the sequence of its CSV lines, each line the sequence of    *)
(* its fields: the first line is the header.                               *)
(***************************************************************************)
EXTENDS Integers, Sequences, FiniteSets, TLC

VARIABLES rows, file, op, args, ret

vars == <<rows, file, op, args, ret>>

\* ------------------------------------------------------------------ bounds

MaxRows == 2
MaxFields == 2

\* ------------------------------------------------------------------ values

\* Python's None object: a value equal to no string.
NoneVal == "<None>"

\* A string holding a carriage return, and what a text-mode read makes of it.
CR == "a\rb"
LF == "a\nb"

key_columns == <<"id">>

IdVals == {"1", "2"}
NameVals == {"1", CR}

\* The orders in which the columns S may have been inserted into a dict.
Orders(S) == {o \in [1..Cardinality(S) -> S] : {o[i] : i \in DOMAIN o} = S}

\* The values of the records a caller may hand to the constructor: every
\* record has the key column, the column "name" is optional (tolerant schema).
RecordValues ==
    [{"id"} -> IdVals]
    \cup {r \in [{"id", "name"} -> IdVals \cup NameVals] :
            r["id"] \in IdVals /\ r["name"] \in NameVals}

\* The records, in every insertion order of their columns.
Records ==
    UNION {{[ks |-> o, vs |-> f] : o \in Orders(DOMAIN f)} : f \in RecordValues}

RowSets == UNION {[1..n -> Records] : n \in 0..MaxRows}

\* Optional arguments: (field_list=None), (template=None).
Absent == [is_none |-> TRUE, v |-> <<>>]
Given(x) == [is_none |-> FALSE, v |-> x]

TemplateCols == {"id", "name", "z"}
TemplateVals == {"1", NoneVal}

Dicts(cols, vals) == UNION {[D -> vals] : D \in SUBSET cols}

Templates == {Absent} \cup {Given(t) : t \in Dicts(TemplateCols, TemplateVals)}

Lists(S, n) == UNION {[1..k -> S] : k \in 0..n}

\* The columns a caller asks for: "name" is a column some records lack.
FieldCols == {"id", "name"}

FieldLists == {Absent} \cup {Given(f) : f \in Lists(FieldCols, MaxFields)}

\* Key values: too few, as many as the key columns, too many.
KeyFieldLists == Lists(IdVals, Len(key_columns) + 1)

NewValues == {[c \in {} |-> "1"], [id |-> "2"], [name |-> "2"]}

\* A zero-byte file.
EmptyFile == <<>>

\* The backing file before the table is constructed: a header and one line.
OldFile == << <<"id", "name">>, <<"2", "1">> >>

\* ------------------------------------------------------------------ results

Returned(v) == [exc |-> "", none |-> FALSE, val |-> v]
ReturnedNone == [exc |-> "", none |-> TRUE, val |-> NoneVal]
Raised(e) == [exc |-> e, none |-> FALSE, val |-> NoneVal]

\* ------------------------------------------------------------------ helpers

Range(s) == {s[i] : i \in DOMAIN s}

\* d.keys(): the columns in insertion order.
keys(d) == d.ks

\* The order in which the keys s[1], s[2], ... enter a dict: a key that is
\* set again keeps its place.
RECURSIVE first_set(_, _, _)
first_set(s, i, result) ==
    IF i > Len(s) THEN result
    ELSE IF s[i] \in Range(result) THEN first_set(s, i + 1, result)
    ELSE first_set(s, i + 1, Append(result, s[i]))

\* dict(zip(ks, vs)): pairs up to the shorter list, a later pair replaces an
\* earlier one with the same key.
zip_dict(ks, vs) ==
    LET n == IF Len(ks) < Len(vs) THEN Len(ks) ELSE Len(vs)
        last(k) == CHOOSE i \in 1..n : ks[i] = k /\ \A j \in (i + 1)..n : ks[j] # k
    IN  [k \in {ks[i] : i \in 1..n} |-> vs[last(k)]]

\* ------------------------------------------------------------------ _project

_project(row, field_list) ==
    IF field_list.is_none THEN Returned(row)
    ELSE IF \E i \in DOMAIN field_list.v : field_list.v[i] \notin DOMAIN row.vs
         THEN Raised("KeyError")
         ELSE Returned([ks |-> first_set(field_list.v, 1, <<>>),
                        vs |-> [f \in Range(field_list.v) |-> row.vs[f]]])

\* ------------------------------------------------------------------ matches_template

\* row.get(k, None)
get(row, k) == IF k \in DOMAIN row.vs THEN row.vs[k] ELSE NoneVal

matches_template(row, template) ==
    IF template.is_none THEN TRUE
    ELSE \A k \in DOMAIN template.v : template.v[k] = get(row, k)

\* ------------------------------------------------------------------ find_by_template

\* for r in reversed(self._rows): i is the position of r, result the list
\* built so far. A KeyError of _project leaves the loop.
RECURSIVE find_loop(_, _, _, _, _)
find_loop(rs, i, template, field_list, result) ==
    IF i = 0 THEN Returned(result)
    ELSE IF matches_template(rs[i], template)
         THEN LET new_r == _project(rs[i], field_list)
              IN  IF new_r.exc # "" THEN new_r
                  ELSE find_loop(rs, i - 1, template, field_list,
                                 Append(result, new_r.val))
         ELSE find_loop(rs, i - 1, template, field_list, result)

\* The scan without reversed(): for r in self._rows.
RECURSIVE find_loop_forward(_, _, _, _, _)
find_loop_forward(rs, i, template, field_list, result) ==
    IF i > Len(rs) THEN Returned(result)
    ELSE IF matches_template(rs[i], template)
         THEN LET new_r == _project(rs[i], field_list)
              IN  IF new_r.exc # "" THEN new_r
                  ELSE find_loop_forward(rs, i + 1, template, field_list,
                                         Append(result, new_r.val))
         ELSE find_loop_forward(rs, i + 1, template, field_list, result)

find_by_template_forward(rs, template, field_list) ==
    find_loop_forward(rs, 1, template, field_list, <<>>)

find_by_template(rs, template, field_list) ==
    find_loop(rs, Len(rs), template, field_list, <<>>)

\* ------------------------------------------------------------------ find_by_primary_key

\* The body builds dictionary = dict(zip(key_columns, key_fields)), uses it
\* for nothing and returns None.
find_by_primary_key(rs, key_fields, field_list) ==
    LET dictionary == zip_dict(key_columns, key_fields)
    IN  ReturnedNone

\* ------------------------------------------------------------------ save

\* What csv.writer writes for a value: None as the empty string.
field_text(v) == IF v = NoneVal THEN "" ELSE v

\* DictWriter.writerow: a key outside fieldnames raises ValueError
\* (extrasaction="raise"), a missing one is written as restval "".
writerow(columns, r) ==
    IF \E k \in DOMAIN r.vs : k \notin Range(columns)
    THEN Raised("ValueError")
    ELSE Returned([i \in 1..Len(columns) |->
                     IF columns[i] \in DOMAIN r.vs THEN field_text(r.vs[columns[i]])
                     ELSE ""])

RECURSIVE save_loop(_, _, _, _)
save_loop(rs, i, columns, written) ==
    IF i > Len(rs) THEN [file |-> written, ret |-> ReturnedNone]
    ELSE LET w == writerow(columns, rs[i])
         IN  IF w.exc # "" THEN [file |-> written, ret |-> w]
             ELSE save_loop(rs, i + 1, columns, Append(written, w.val))

\* open(fn, "w") truncates the file before self._rows[0] is read.
save(rs) ==
    IF rs = <<>> THEN [file |-> EmptyFile, ret |-> Raised("IndexError")]
    ELSE LET columns == keys(rs[1])
         IN  save_loop(rs, 1, columns, <<columns>>)

\* ------------------------------------------------------------------ _load

\* open(full_name, "r"): universal newlines turn a carriage return into a
\* line feed, inside a quoted field too.
text_read(s) == IF s = CR THEN LF ELSE s

\* csv.DictReader: the first line names the columns, an empty line is
\* skipped, a line shorter than the header is filled with restval None. A
\* line longer than the header does not occur: save writes one field for each
\* column of the header.
RECURSIVE load_loop(_, _, _)
load_loop(f, i, result) ==
    IF i > Len(f) THEN result
    ELSE IF f[i] = <<>> THEN load_loop(f, i + 1, result)
    ELSE LET fieldnames == f[1]
             line == f[i]
             values == [k \in Range(fieldnames) |->
                     LET j == CHOOSE n \in DOMAIN fieldnames :
                                 /\ fieldnames[n] = k
                                 /\ \A m \in DOMAIN fieldnames :
                                       m > n => fieldnames[m] # k
                     IN  IF j <= Len(line) THEN text_read(line[j]) ELSE NoneVal]
             r == [ks |-> first_set(fieldnames, 1, <<>>), vs |-> values]
         IN  load_loop(f, i + 1, Append(result, r))

_load(f) == IF f = <<>> THEN <<>> ELSE load_loop(f, 2, <<>>)

\* ------------------------------------------------------------------ __str__

_rows_to_print == 10
_no_of_separators == 2

\* rows[a:b] of Python, 0 <= a, b <= len.
slice(rs, a, b) == IF b <= a THEN <<>> ELSE SubSeq(rs, a + 1, b)

\* The rows handed to the DataFrame that __str__ prints.
__str__(rs) ==
    LET no_rows == Len(rs)
    IN  IF no_rows <= _rows_to_print THEN slice(rs, 0, no_rows)
        ELSE LET temp_r == _rows_to_print \div 2
                 tmp_row == [ks |-> keys(rs[1]),
                             vs |-> [k \in Range(keys(rs[1])) |-> "***"]]
             IN  slice(rs, 0, temp_r)
                 \o [i \in 1.._no_of_separators |-> tmp_row]
                 \o slice(rs, no_rows - temp_r - 1, no_rows - 1)

\* ------------------------------------------------------------------ actions

\* CSVDataTable(table_name, connect_info, key_columns, rows=rows): the rows
\* handed in are copied, the file is not read.
Init ==
    /\ rows \in RowSets
    /\ file = OldFile
    /\ op = "__init__"
    /\ args = [rows |-> TRUE]
    /\ ret = ReturnedNone

\* CSVDataTable(table_name, connect_info, key_columns): a fresh table on the
\* same file, rows=None, so the row set is read from the file.
Construct ==
    /\ op = "idle"
    /\ rows' = _load(file)
    /\ op' = "__init__"
    /\ args' = [rows |-> FALSE]
    /\ ret' = ReturnedNone
    /\ UNCHANGED file

FindByPrimaryKey ==
    /\ op = "idle"
    /\ \E key_fields \in KeyFieldLists, field_list \in FieldLists :
        /\ op' = "find_by_primary_key"
        /\ args' = [key_fields |-> key_fields, field_list |-> field_list]
        /\ ret' = find_by_primary_key(rows, key_fields, field_list)
        /\ UNCHANGED <<rows, file>>

FindByTemplate ==
    /\ op = "idle"
    /\ \E template \in Templates, field_list \in FieldLists :
        /\ op' = "find_by_template"
        /\ args' = [template |-> template, field_list |-> field_list]
        /\ ret' = find_by_template(rows, template, field_list)
        /\ UNCHANGED <<rows, file>>

\* delete_by_key: the body is "return".
DeleteByKey ==
    /\ op = "idle"
    /\ \E key_fields \in KeyFieldLists :
        /\ op' = "delete_by_key"
        /\ args' = [key_fields |-> key_fields]
        /\ ret' = ReturnedNone
        /\ UNCHANGED <<rows, file>>

\* delete_by_template: counter = 0; return counter.
DeleteByTemplate ==
    /\ op = "idle"
    /\ \E template \in Templates :
        /\ op' = "delete_by_template"
        /\ args' = [template |-> template]
        /\ ret' = Returned(0)
        /\ UNCHANGED <<rows, file>>

\* update_by_key: the body is "return".
UpdateByKey ==
    /\ op = "idle"
    /\ \E key_fields \in KeyFieldLists, new_values \in NewValues :
        /\ op' = "update_by_key"
        /\ args' = [key_fields |-> key_fields, new_values |-> new_values]
        /\ ret' = ReturnedNone
        /\ UNCHANGED <<rows, file>>

\* update_by_template: counter = 0; return counter.
UpdateByTemplate ==
    /\ op = "idle"
    /\ \E template \in Templates, new_values \in NewValues :
        /\ op' = "update_by_template"
        /\ args' = [template |-> template, new_values |-> new_values]
        /\ ret' = Returned(0)
        /\ UNCHANGED <<rows, file>>

\* insert: the body is a comment; the call returns None.
Insert ==
    /\ op = "idle"
    /\ \E new_record \in Records :
        /\ op' = "insert"
        /\ args' = [new_record |-> new_record]
        /\ ret' = ReturnedNone
        /\ UNCHANGED <<rows, file>>

Save ==
    /\ op = "idle"
    /\ op' = "save"
    /\ args' = [none |-> TRUE]
    /\ file' = save(rows).file
    /\ ret' = save(rows).ret
    /\ UNCHANGED rows

Str ==
    /\ op = "idle"
    /\ op' = "__str__"
    /\ args' = [none |-> TRUE]
    /\ ret' = Returned(__str__(rows))
    /\ UNCHANGED <<rows, file>>

\* The call has returned (or raised) and the caller goes on: operations are
\* synchronous, one call at a time.
Continue ==
    /\ op # "idle"
    /\ op' = "idle"
    /\ args' = [none |-> TRUE]
    /\ ret' = ReturnedNone
    /\ UNCHANGED <<rows, file>>

Next ==
    \/ Continue
    \/ Construct
    \/ FindByPrimaryKey
    \/ FindByTemplate
    \/ DeleteByKey
    \/ DeleteByTemplate
    \/ UpdateByKey
    \/ UpdateByTemplate
    \/ Insert
    \/ Save
    \/ Str

Spec == Init /\ [][Next]_vars

\* ------------------------------------------------------------------ properties

\* The key tuple of a record.
KeyOf(r) == [i \in DOMAIN key_columns |-> r.vs[key_columns[i]]]

KeysUnique(rs) ==
    \A i, j \in DOMAIN rs : i # j => KeyOf(rs[i]) # KeyOf(rs[j])

\* The positions of the records that match a template, a key.
Matching(rs, template) == {i \in DOMAIN rs : matches_template(rs[i], template)}
WithKey(rs, key_values) == {i \in DOMAIN rs : KeyOf(rs[i]) = key_values}

\* Two records are equal as Python dicts; two row sets hold equal records in
\* the same order.
DictEq(a, b) == a.vs = b.vs
RowsEq(rs, qs) == Len(rs) = Len(qs) /\ \A i \in DOMAIN rs : DictEq(rs[i], qs[i])

\* The values of a record reduced to the columns of a field list.
Projected(r, field_list) ==
    IF field_list.is_none THEN r.vs ELSE [c \in Range(field_list.v) |-> r.vs[c]]

Projectable(r, field_list) ==
    field_list.is_none \/ Range(field_list.v) \subseteq DOMAIN r.vs

\* rs without the element at position k.
Without(rs, k) == [i \in 1..(Len(rs) - 1) |-> IF i < k THEN rs[i] ELSE rs[i + 1]]

\* rs and qs hold the same records, each as often.
SameRecords(rs, qs) ==
    /\ Len(rs) = Len(qs)
    /\ \A i \in DOMAIN rs :
          Cardinality({j \in DOMAIN qs : DictEq(qs[j], rs[i])})
              = Cardinality({j \in DOMAIN rs : DictEq(rs[j], rs[i])})

\* The values of a record with new values applied.
Updated(r, new_values) ==
    [c \in DOMAIN r.vs \cup DOMAIN new_values |->
        IF c \in DOMAIN new_values THEN new_values[c] ELSE r.vs[c]]

\* The file's records are the row set in memory.
Persisted == RowsEq(_load(file), rows)

StringValued(rs) ==
    \A i \in DOMAIN rs : \A c \in DOMAIN rs[i].vs : rs[i].vs[c] # NoneVal

\* C1: from a row set with pairwise distinct keys, an insert of a record whose
\* key is held by a record of the table fails with DuplicateKeyError and
\* leaves the row set unchanged, an insert with a new key adds exactly that
\* record, and the keys stay pairwise distinct.
C1_InsertKeepsKeysUnique ==
    [][(op' = "insert" /\ KeysUnique(rows)) =>
          LET new_record == args'.new_record
          IN  /\ IF WithKey(rows, KeyOf(new_record)) # {}
                 THEN ret'.exc = "DuplicateKeyError" /\ rows' = rows
                 ELSE /\ ret'.exc = ""
                      /\ \E k \in DOMAIN rows' :
                            DictEq(rows'[k], new_record) /\ Without(rows', k) = rows
              /\ KeysUnique(rows')]_vars

\* C2: with as many key values as key columns, find_by_primary_key returns
\* the one record with that key, projected to the field list, and None
\* exactly when no record has the key.
C2_FindByPrimaryKey ==
    (/\ op = "find_by_primary_key"
     /\ Len(args.key_fields) = Len(key_columns)
     /\ KeysUnique(rows)
     /\ \A i \in DOMAIN rows : Projectable(rows[i], args.field_list))
    => LET found == WithKey(rows, args.key_fields)
       IN  /\ ret.exc = ""
           /\ ret.none <=> found = {}
           /\ \A i \in found :
                 ~ret.none /\ ret.val.vs = Projected(rows[i], args.field_list)

\* C3: find_by_template leaves the row set as it was and returns one result
\* for each record that matches the template, the projection of the record to
\* the field list, the results in the reverse of the order of the rows; it
\* raises KeyError exactly when a matching record lacks a column of the field
\* list.
C3_FindByTemplate ==
    [][op' = "find_by_template" =>
          LET template == args'.template
              field_list == args'.field_list
              found == Matching(rows, template)
              \* the j-th matching position, counted from the last row
              nth(j) == CHOOSE i \in found :
                           Cardinality({k \in found : k > i}) = j - 1
          IN  /\ rows' = rows
              /\ IF \E i \in found : ~Projectable(rows[i], field_list)
                 THEN ret'.exc = "KeyError"
                 ELSE /\ ret'.exc = ""
                      /\ ~ret'.none
                      /\ Len(ret'.val) = Cardinality(found)
                      /\ \A j \in 1..Cardinality(found) :
                            ret'.val[j].vs = Projected(rows[nth(j)], field_list)]_vars

\* Two different records found by a template with a column, projected to a
\* field list with a column.
C3_Witness ==
    /\ op = "find_by_template"
    /\ ret.exc = ""
    /\ ~args.template.is_none
    /\ DOMAIN args.template.v # {}
    /\ ~args.field_list.is_none
    /\ Len(args.field_list.v) > 0
    /\ Len(ret.val) = 2
    /\ ~DictEq(ret.val[1], ret.val[2])

\* C4: find_by_template(None) and find_by_template({}) return all rows; a
\* template with a (column, value) pair such that no record has that column
\* equal to that value, a template value of None included, returns no record.
C4_TemplateMatchingTotality ==
    op = "find_by_template" =>
        LET template == args.template
        IN  /\ (template.is_none \/ DOMAIN template.v = {}) =>
                  /\ ret.exc = "" => Len(ret.val) = Len(rows)
                  /\ args.field_list.is_none =>
                        ret.exc = "" /\ SameRecords(ret.val, rows)
            /\ (/\ ~template.is_none
                /\ \E k \in DOMAIN template.v :
                      \A i \in DOMAIN rows :
                         ~(/\ k \in DOMAIN rows[i].vs
                           /\ rows[i].vs[k] = template.v[k]))
               => ret.exc = "" /\ ret.val = <<>>

\* C5: delete_by_template returns the number of records that matched the
\* template before the call, removes those records and no others, and the
\* template finds no record afterwards.
C5_DeleteByTemplate ==
    [][op' = "delete_by_template" =>
          LET template == args'.template
              found == Matching(rows, template)
          IN  /\ ret'.exc = ""
              /\ ~ret'.none
              /\ ret'.val = Cardinality(found)
              /\ rows' = SelectSeq(rows, LAMBDA r : ~matches_template(r, template))
              /\ Matching(rows', template) = {}]_vars

\* C6: update_by_key applies new_values to the record with the key and
\* returns the number of rows updated (1 or 0); when the new values would
\* give the record a key that another record holds, it fails with
\* DuplicateKeyError and the row set is unchanged.
C6_UpdateByKey ==
    [][(/\ op' = "update_by_key"
        /\ KeysUnique(rows)
        /\ Len(args'.key_fields) = Len(key_columns)) =>
          LET found == WithKey(rows, args'.key_fields)
          IN  IF found = {}
              THEN ret'.exc = "" /\ ~ret'.none /\ ret'.val = 0 /\ rows' = rows
              ELSE LET i == CHOOSE n \in found : TRUE
                       u == Updated(rows[i], args'.new_values)
                   IN  IF \E j \in DOMAIN rows :
                              j # i /\ KeyOf(rows[j]) = KeyOf([vs |-> u])
                       THEN ret'.exc = "DuplicateKeyError" /\ rows' = rows
                       ELSE /\ ret'.exc = ""
                            /\ ~ret'.none
                            /\ ret'.val = 1
                            /\ Len(rows') = Len(rows)
                            /\ \A n \in DOMAIN rows :
                                  rows'[n].vs = IF n = i THEN u ELSE rows[n].vs]_vars

\* C7: save() on an empty row set fails with EmptyTableError and leaves the
\* backing file as it was.
C7_SaveEmpty ==
    [][(op' = "save" /\ rows = <<>>) =>
          ret'.exc = "EmptyTableError" /\ file' = file]_vars

\* C8: find_by_primary_key fails with ArityError when the number of key
\* values differs from the number of key columns.
C8_ArityError ==
    (op = "find_by_primary_key" /\ Len(args.key_fields) # Len(key_columns))
        => ret.exc = "ArityError"

\* C9: for a non-empty row set of string-valued records, records that differ
\* in their non-key columns included, save() succeeds and a fresh load of the
\* file gives the same records in the same order.
C9_RoundTrip ==
    (op = "save" /\ rows # <<>> /\ StringValued(rows))
        => ret.exc = "" /\ RowsEq(_load(file), rows)

\* C10: the file changes only inside save(); after a successful save() the
\* file's records are the row set in memory, and stay so until the next
\* mutating operation; the find operations and the string conversion change
\* neither the row set nor the file.
C10_PersistenceStateMachine ==
    [][/\ file' # file => op' = "save"
       /\ (op' = "save" /\ ret'.exc = "") => Persisted'
       /\ op' \in {"find_by_primary_key", "find_by_template", "__str__", "idle"} =>
             /\ rows' = rows
             /\ file' = file
             /\ Persisted => Persisted']_vars

====
